---- MODULE Spec2Model ----
(***************************************************************************)
(* State-machine model of perfetto's TrackEventDataSource                  *)
(* (include/perfetto/tracing/internal/track_event_data_source.h).          *)
(*                                                                         *)
(* Application threads issue trace points, enablement queries and track    *)
(* descriptor updates; a session controller sets sessions up, stops them   *)
(* and clears incremental state.  Every thread writes, per session         *)
(* instance, into its own sequence out[t][i] with its own incremental      *)
(* state tls[t][i].                                                        *)
(***************************************************************************)
EXTENDS Naturals, Sequences, FiniteSets, TLC

VARIABLES
  catState,        \* category registry: state byte per static category index
  validInstances,  \* bitmask of the data source's active session instances
  config,          \* config_ of the data source instance of each session slot
  lock,            \* holder of each instance's lock (GetDataSourceLocked)
  incrGen,         \* incremental state generation of each instance
  tracks,          \* TrackRegistry: track uuid -> serialized descriptor
  tls,             \* tls[t][i]: per thread and instance incremental state
  out,             \* out[t][i]: packets written by the trace writer of (t, i)
  pc,              \* position of each thread inside a trace point
  cur,             \* arguments of the trace point a thread is executing
  callNo,          \* history: number of the trace point a thread is executing
  instances,       \* the instance bitmask the trace point was called back with
  inst,            \* instance the thread's TraceWithInstances loop is at
  enabledRet,      \* last value IsDynamicCategoryEnabled(ctx, ..) returned
  first,           \* history: first[t][i][n] = first value returned for n in this epoch
  argCalls,        \* argCalls[t][i]: number of argument function invocations
  resetCalls,      \* resetCalls[t][i]: number of ResetIncrementalState calls
  created,         \* created[t][i]: number of incremental states constructed
  calls,           \* number of trace points issued so far (all threads)
  resets,          \* number of ClearIncrementalState requests so far
  trackOps,        \* number of SetTrackDescriptor calls so far
  ret,             \* result of the last enablement query
  registered,      \* whether Register() was called
  observers,       \* the session observers, in the order they were added
  build,           \* the build of the program: PERFETTO_DCHECK is on or compiled out
  erasedAt         \* history: erasedAt[t][i][u] = where sequence (t, i) was at the last erase of u

vars == <<catState, validInstances, config, lock, incrGen, tracks, tls, out,
          pc, cur, callNo, instances, inst, enabledRet, first, argCalls,
          resetCalls, created, calls, resets, trackOps, ret, erasedAt,
          registered, observers, build>>

-----------------------------------------------------------------------------
(* Bounds of the model *)

NumThreads == 2
NumInstances == 2
MaxCalls == 2
MaxConcCalls == 3
MaxShapeCalls == 1
MaxResets == 1
MaxTrackOps == 2
MaxEraseSets == 1
MaxObservers == 2

Threads == 1..NumThreads
Instances == 0..(NumInstances - 1)
NoThread == 0
NoInstance == NumInstances

-----------------------------------------------------------------------------
(* Bitmasks: std::atomic<uint8_t> category state, uint32_t instances *)

RECURSIVE Pow2(_)
Pow2(n) == IF n = 0 THEN 1 ELSE 2 * Pow2(n - 1)

Bit(m, i) == (m \div Pow2(i)) % 2 = 1

SetBit(m, i) == IF Bit(m, i) THEN m ELSE (m + Pow2(i)) % 256

ClearBit(m, i) == IF Bit(m, i) THEN m - Pow2(i) ELSE m

\* lowest instance index >= from whose bit is set in m, or NoInstance
NextInstance(m, from) ==
  IF \E i \in Instances : i >= from /\ Bit(m, i)
  THEN CHOOSE i \in Instances :
         /\ i >= from /\ Bit(m, i)
         /\ \A j \in Instances : (j >= from /\ Bit(m, j)) => i <= j
  ELSE NoInstance

-----------------------------------------------------------------------------
(* Categories *)

\* Names are strings, modelled as sequences of characters.
StaticCategoryNames == << <<"a">>, <<"b">> >>
StaticCats == 0..(Len(StaticCategoryNames) - 1)
DynNames == { <<"b">>, <<"a", ",", "b">> }
Members == { <<"a">>, <<"b">> }
Configs == { {<<"a">>}, {<<"b">>} }

\* A category reference is a static index or a dynamic name.
StaticCategory(c) == [dyn |-> FALSE, index |-> c]
DynamicCategory(n) == [dyn |-> TRUE, name |-> n]
Categories == {StaticCategory(c) : c \in StaticCats} \cup {DynamicCategory(n) : n \in DynNames}

\* CategoryTraits<size_t>::kIsDynamic = false, CategoryTraits<T>::kIsDynamic = true
kIsDynamic(category) == category.dyn

\* CategoryTraits<size_t>::GetStaticIndex
GetStaticIndex(category) == category.index

\* CategoryTraits<T>::GetDynamicCategory
GetDynamicCategory(category) == category.name

\* TrackEventCategoryRegistry::kDynamicCategoryIndex
kDynamicCategoryIndex == Len(StaticCategoryNames)

RECURSIVE SplitAt(_, _, _)
\* the members of a comma-joined name, in order
SplitAt(s, k, word) ==
  IF k > Len(s) THEN <<word>>
  ELSE IF s[k] = "," THEN <<word>> \o SplitAt(s, k + 1, <<>>)
  ELSE SplitAt(s, k + 1, Append(word, s[k]))

ForEachGroupMember(name) == SplitAt(name, 1, <<>>)

\* TrackEventInternal::IsCategoryEnabled(registry, config, category)
ConfigEnables(cfg, name) ==
  \E k \in 1..Len(ForEachGroupMember(name)) : ForEachGroupMember(name)[k] \in cfg

-----------------------------------------------------------------------------
(* Tracks and trace point arguments *)

\* value of the track field of an event that sets no track uuid
NoTrackId == Cardinality({0, 1}) + 1
NoDesc == "nodesc"
DefaultDesc == "default"
Descs == {"d1", "d2"}
TrackUuids == {0, 1}

kDefaultTrack == [uuid |-> 0, dflt |-> TRUE]
ExplicitTracks == { [uuid |-> 1, dflt |-> FALSE], [uuid |-> 0, dflt |-> FALSE] }
RegisteredTracks == { tr \in ExplicitTracks : tr.uuid # 0 }

\* Track::operator bool
TrackBool(track) == track.uuid # 0

ClockReadings == {5}
SuppliedTimestamps == {7}
EventNames == {"send"}
EventTypes == {"instant"}

ShapeKinds == {"none", "lambda", "lambda_ts", "debug1", "debug2",
               "track", "track_lambda", "track_ts", "track_lambda_ts",
               "track_debug1", "track_debug2"}

HasTrack(kind) == kind \in {"track", "track_lambda", "track_ts",
                            "track_lambda_ts", "track_debug1", "track_debug2"}
HasTimestamp(kind) == kind \in {"lambda_ts", "track_ts", "track_lambda_ts"}

\* the argument function each TraceForCategory overload hands on
ArgFunctionOf(kind) ==
  CASE kind \in {"lambda", "lambda_ts", "track_lambda", "track_lambda_ts"} -> "lambda"
    [] kind \in {"debug1", "track_debug1"} -> "debug1"
    [] kind \in {"debug2", "track_debug2"} -> "debug2"
    [] OTHER -> "default"

\* TrackEventInternal::GetClockId: the clock of the trace
GetClockId == "trace_clock"

\* PERFETTO_DCHECK aborts the program in a debug build and is compiled out of
\* a release build
Builds == {"debug", "release"}

\* the type of a timestamp handed to a trace point: a raw count of
\* nanoseconds, or a type the user has specialised the conversion for
TimestampTypes == {"uint64_t", "UserTimestamp"}

\* the clock the user's conversion names
UserClockId == "user_clock"

\* a user's specialisation of ConvertTimestampToTraceTimeNs
ConvertUserTimestampToTraceTimeNs(timestamp) ==
  [clock_id |-> UserClockId, value |-> timestamp]

\* ConvertTimestampToTraceTimeNs(const uint64_t&): pass-through, in the clock
\* of the trace
ConvertTimestampToTraceTimeNs(timestamp) ==
  [clock_id |-> GetClockId, value |-> timestamp]

\* TraceForCategory overloads: the arguments handed to TraceForCategoryImpl
TraceForCategory(category, kind, name, type, track, timestamp, now) ==
  [ category |-> category,
    kind |-> kind,
    name |-> name,
    type |-> type,
    track |-> IF HasTrack(kind) THEN track ELSE kDefaultTrack,
    timestamp |-> IF HasTimestamp(kind) THEN timestamp ELSE now,
    timestamp_type |-> "uint64_t",
    arg_function |-> ArgFunctionOf(kind) ]

\* the overloads with a timestamp, instantiated for a TimestampType
WithTimestampType(call, ty) ==
  IF HasTimestamp(call.kind) THEN [call EXCEPT !.timestamp_type = ty] ELSE call

\* ::perfetto::ConvertTimestampToTraceTimeNs(timestamp), for the type of the
\* timestamp of the call
TraceTimestamp(call) ==
  IF call.timestamp_type = "uint64_t"
  THEN ConvertTimestampToTraceTimeNs(call.timestamp)
  ELSE ConvertUserTimestampToTraceTimeNs(call.timestamp)

\* (mutant) the clock of the timestamp is checked in every build
ClockDcheckFails_AnyBuild(b, trace_timestamp) ==
  trace_timestamp.clock_id # GetClockId

\* PERFETTO_DCHECK(trace_timestamp.clock_id == GetClockId()) fails
ClockDcheckFails(b, trace_timestamp) ==
  b = "debug" /\ trace_timestamp.clock_id # GetClockId

\* PERFETTO_DCHECK(track) of the overloads with a track and debug annotations
\* fails
TrackDcheckFails(b, call) ==
  b = "debug" /\ call.kind \in {"track_debug1", "track_debug2"} /\ ~TrackBool(call.track)

\* (mutant) the second debug pair is added before the first
ArgFunctionOutput_SecondFirst(arg_function) ==
  CASE arg_function = "lambda" -> <<"lambda">>
    [] arg_function = "debug1" -> <<"arg_name">>
    [] arg_function = "debug2" -> <<"arg_name2", "arg_name">>
    [] OTHER -> <<>>

\* what the argument function appends to the open event
ArgFunctionOutput(arg_function) ==
  CASE arg_function = "lambda" -> <<"lambda">>
    [] arg_function = "debug1" -> <<"arg_name">>
    [] arg_function = "debug2" -> <<"arg_name", "arg_name2">>
    [] OTHER -> <<>>

NoCall == [kind |-> "nocall"]

-----------------------------------------------------------------------------
(* Incremental state *)

EmptyCache == [n \in {} |-> FALSE]

\* a thread that has not written for an instance yet has no state
NoTls == [has |-> FALSE, gen |-> 0, was_cleared |-> FALSE,
          dynamic_categories |-> EmptyCache, seen_tracks |-> {}]

\* TrackEventIncrementalState as constructed
FreshIncrementalState(gen) ==
  [has |-> TRUE, gen |-> gen, was_cleared |-> TRUE,
   dynamic_categories |-> EmptyCache, seen_tracks |-> {}]

\* whether ctx.GetIncrementalState() constructs a new state
IsStale(st, gen) == ~st.has \/ st.gen # gen

\* TraceContext::GetIncrementalState
GetIncrementalState(st, gen) ==
  IF IsStale(st, gen) THEN FreshIncrementalState(gen) ELSE st

-----------------------------------------------------------------------------
(* Collaborators of the data source: registry, track registry, trace writer *)

\* TrackEventInternal::EnableTracing: set the instance's bit of every static
\* category the session config enables
EnableTracing(state, cfg, i) ==
  [c \in StaticCats |->
     IF ConfigEnables(cfg, StaticCategoryNames[c + 1]) THEN SetBit(state[c], i)
     ELSE state[c]]

\* TrackEventInternal::DisableTracing: clear the instance's bit everywhere
DisableTracing(state, i) == [c \in StaticCats |-> ClearBit(state[c], i)]

\* TrackRegistry::UpdateTrack
UpdateTrack(reg, track, desc) == [reg EXCEPT ![track.uuid] = desc]

\* TrackRegistry::EraseTrack
EraseTrack(reg, track) == [reg EXCEPT ![track.uuid] = NoDesc]

\* TrackRegistry::SerializeTrack: the registered descriptor, or the track's own
SerializeTrack(reg, track) ==
  IF track.uuid \in DOMAIN reg /\ reg[track.uuid] # NoDesc
  THEN reg[track.uuid] ELSE DefaultDesc

\* TrackEventInternal::WriteTrackDescriptor(track, trace_writer)
WriteTrackDescriptor(reg, track, log, by) ==
  Append(log, [kind |-> "desc", uuid |-> track.uuid,
               desc |-> SerializeTrack(reg, track), by |-> by])

\* TrackEventInternal::WriteTrackDescriptorIfNeeded(track, trace_writer, incr_state)
WriteTrackDescriptorIfNeeded(reg, track, w) ==
  IF track.uuid \in w.st.seen_tracks THEN w
  ELSE [st |-> [w.st EXCEPT !.seen_tracks = @ \cup {track.uuid}],
        log |-> WriteTrackDescriptor(reg, track, w.log, "emit"),
        nreset |-> w.nreset]

\* TrackEventInternal::ResetIncrementalState(trace_writer, timestamp)
ResetIncrementalState(log, ts) == Append(log, [kind |-> "reset", ts |-> ts])

-----------------------------------------------------------------------------
(* TraceForCategoryImpl: the lambda run for one instance.                  *)
(* w = [st: incremental state, log: the sequence's output, nreset: count   *)
(* of ResetIncrementalState calls]                                         *)

\* (mutant) the rebuild is made and the flag is left set
EnsureValid_FlagLeftSet(w, ts) ==
  IF w.st.was_cleared
  THEN [st |-> w.st, log |-> ResetIncrementalState(w.log, ts), nreset |-> w.nreset + 1]
  ELSE w

\* (mutant) the flag is cleared and the writer is not told
EnsureValid_NoSignal(w, ts) ==
  [st |-> [w.st EXCEPT !.was_cleared = FALSE], log |-> w.log, nreset |-> w.nreset]

\* (mutant) the rebuild also empties the cache of dynamic categories
EnsureValid_ClearsCache(w, ts) ==
  IF w.st.was_cleared
  THEN [st |-> [w.st EXCEPT !.was_cleared = FALSE, !.dynamic_categories = EmptyCache],
        log |-> ResetIncrementalState(w.log, ts),
        nreset |-> w.nreset + 1]
  ELSE w

\* "Make sure incremental state is valid."
EnsureValid(w, ts) ==
  IF w.st.was_cleared
  THEN [st |-> [w.st EXCEPT !.was_cleared = FALSE],
        log |-> ResetIncrementalState(w.log, ts),
        nreset |-> w.nreset + 1]
  ELSE w

\* (mutant) the descriptor is written whether or not the sequence has seen
\* the track
WriteTrackStep_Always(reg, track, w) ==
  IF TrackBool(track)
  THEN [st |-> [w.st EXCEPT !.seen_tracks = @ \cup {track.uuid}],
        log |-> WriteTrackDescriptor(reg, track, w.log, "emit"),
        nreset |-> w.nreset]
  ELSE w

\* "Write the track descriptor before any event on the track."
WriteTrackStep(reg, track, w) ==
  IF TrackBool(track) THEN WriteTrackDescriptorIfNeeded(reg, track, w) ELSE w

\* (mutant) one tag is added, the comma-joined name as given
CategoryTags_WholeName(category) ==
  IF kIsDynamic(category) THEN <<GetDynamicCategory(category)>> ELSE <<>>

\* category tags added for a dynamic category
CategoryTags(category) ==
  IF kIsDynamic(category) THEN ForEachGroupMember(GetDynamicCategory(category)) ELSE <<>>

\* track uuid set on the event
TrackUuidField(track) == IF track # kDefaultTrack THEN track.uuid ELSE NoTrackId

\* what the lambda does to the event record, in the order it does it: from
\* WriteEvent to the end of the scope of event_ctx
EventSteps(call) ==
  <<"WriteEvent">>
  \o (IF kIsDynamic(call.category) THEN <<"add_categories">> ELSE <<>>)
  \o (IF call.track # kDefaultTrack THEN <<"set_track_uuid">> ELSE <<>>)
  \o <<"arg_function", "close">>

\* "Write the event itself."
EventRecord(call, k, ts) ==
  [kind |-> "event", call |-> k,
   static |-> IF kIsDynamic(call.category) THEN kDynamicCategoryIndex
              ELSE GetStaticIndex(call.category),
   name |-> call.name, type |-> call.type, ts |-> ts,
   categories |-> CategoryTags(call.category),
   track |-> TrackUuidField(call.track),
   args |-> ArgFunctionOutput(call.arg_function),
   steps |-> EventSteps(call)]

\* (mutant) the record is put in front of what the sequence already holds
WriteEventStep_InFront(call, k, ts, w) == [w EXCEPT !.log = <<EventRecord(call, k, ts)>> \o @]

WriteEventStep(call, k, ts, w) == [w EXCEPT !.log = Append(@, EventRecord(call, k, ts))]

\* (mutant) the track descriptor is written after the event
TraceLambda_DescriptorLast(reg, call, k, st, gen, log) ==
  LET ts == TraceTimestamp(call)
      w0 == [st |-> GetIncrementalState(st, gen), log |-> log, nreset |-> 0]
      w1 == EnsureValid(w0, ts)
      w2 == WriteEventStep(call, k, ts, w1)
  IN  WriteTrackStep(reg, call.track, w2)

\* body of the lambda after the dynamic category check
TraceLambda(reg, call, k, st, gen, log) ==
  LET ts == TraceTimestamp(call)
      w0 == [st |-> GetIncrementalState(st, gen), log |-> log, nreset |-> 0]
      w1 == EnsureValid(w0, ts)
      w2 == WriteTrackStep(reg, call.track, w1)
  IN  WriteEventStep(call, k, ts, w2)

\* whether the argument function handed in is one the caller supplied
UserArgFunction(call) == call.arg_function # "default"

\* no enablement query was made yet; |seen| holds, per category, the value
\* the last query for it returned
NoQuery == [op |-> "none", seq |-> 0, seen |-> [c \in StaticCats |-> <<>>]]

\* the program is running: no PERFETTO_DCHECK has failed
Running == \A t \in Threads : pc[t] # "aborted"

\* a failed PERFETTO_DCHECK ends the program in the calling thread
Abort(t) == [pc EXCEPT ![t] = "aborted"]

\* history: the track was not erased yet
NotErased == [has |-> FALSE, len |-> 0, calls |-> 0]

-----------------------------------------------------------------------------
(* Initial state: nothing registered, no session, no thread has traced *)

Init ==
  /\ build \in Builds
  /\ catState = [c \in StaticCats |-> 0]
  /\ validInstances = 0
  /\ config = [i \in Instances |-> {}]
  /\ lock = [i \in Instances |-> NoThread]
  /\ incrGen = [i \in Instances |-> 0]
  /\ tracks = [u \in TrackUuids |-> NoDesc]
  /\ tls = [t \in Threads |-> [i \in Instances |-> NoTls]]
  /\ out = [t \in Threads |-> [i \in Instances |-> <<>>]]
  /\ pc = [t \in Threads |-> "idle"]
  /\ cur = [t \in Threads |-> NoCall]
  /\ callNo = [t \in Threads |-> 0]
  /\ instances = [t \in Threads |-> 0]
  /\ inst = [t \in Threads |-> NoInstance]
  /\ enabledRet = [t \in Threads |-> FALSE]
  /\ first = [t \in Threads |-> [i \in Instances |-> EmptyCache]]
  /\ argCalls = [t \in Threads |-> [i \in Instances |-> 0]]
  /\ resetCalls = [t \in Threads |-> [i \in Instances |-> 0]]
  /\ created = [t \in Threads |-> [i \in Instances |-> 0]]
  /\ calls = 0
  /\ resets = 0
  /\ trackOps = 0
  /\ ret = NoQuery
  /\ registered = FALSE
  /\ observers = <<>>
  /\ erasedAt = [t \in Threads |-> [i \in Instances |-> [u \in TrackUuids |-> NotErased]]]

-----------------------------------------------------------------------------
(* Enablement queries *)

\* (mutant) only the first session's bit of the byte is looked at
IsCategoryEnabled_FirstInstance(c) == Bit(catState[c], 0)

\* IsCategoryEnabled(category_index): the registry byte, converted to bool
IsCategoryEnabled(c) == catState[c] # 0

\* a call of IsCategoryEnabled; |prior| is what the preceding call for the
\* same category returned
IsCategoryEnabledCall(t, c) ==
  /\ Running
  /\ pc[t] = "idle"
  /\ ret' = [op |-> "IsCategoryEnabled", arg |-> c, val |-> IsCategoryEnabled(c),
             seq |-> 1 - ret.seq, prior |-> ret.seen[c],
             seen |-> [ret.seen EXCEPT ![c] = <<IsCategoryEnabled(c)>>]]
  /\ UNCHANGED <<build, catState, validInstances, registered, observers, config, lock, incrGen, tracks, erasedAt, tls,
                 out, pc, cur, callNo, instances, inst, enabledRet, first,
                 argCalls, resetCalls, created, calls, resets, trackOps>>

\* (mutant) enabled as soon as the data source is registered
IsEnabled_Registered == registered

\* IsEnabled(): whether CallIfEnabled calls back, i.e. whether the data
\* source has an active instance
IsEnabled == validInstances # 0

\* a call of IsEnabled
IsEnabledCall(t) ==
  /\ Running
  /\ pc[t] = "idle"
  /\ ret' = [op |-> "IsEnabled", val |-> IsEnabled, seq |-> 1 - ret.seq,
             seen |-> ret.seen]
  /\ UNCHANGED <<build, catState, validInstances, registered, observers, config, lock, incrGen, tracks,
                 erasedAt, tls, out, pc, cur, callNo, instances, inst, enabledRet,
                 first, argCalls, resetCalls, created, calls, resets, trackOps>>

-----------------------------------------------------------------------------
(* Trace points *)

\* (mutant) the trace point reads the data source's instances, not the category's
ActiveInstances_AnyCategory(category) == validInstances

\* (mutant) the trace point is called back for the first session only
ActiveInstances_LowestBit(category) ==
  LET m == IF kIsDynamic(category) THEN validInstances
           ELSE catState[GetStaticIndex(category)]
  IN  IF Bit(m, 0) THEN 1 ELSE 0

\* CallIfCategoryEnabled: the instances a static category's trace point is
\* called back with; a dynamic category's trace point is called back with
\* the active instances of the data source
ActiveInstances(category) ==
  IF kIsDynamic(category) THEN validInstances
  ELSE catState[GetStaticIndex(category)]

\* TraceWithInstances: run the lambda for the next instance of the mask at or
\* after |from|, or return from the trace point when there is none
LoopNext(t, call, k, mask, from) ==
  LET n == NextInstance(mask, from)
  IN  IF n = NoInstance
      THEN /\ pc' = [pc EXCEPT ![t] = "idle"]
           /\ inst' = [inst EXCEPT ![t] = NoInstance]
           /\ cur' = [cur EXCEPT ![t] = NoCall]
           /\ callNo' = [callNo EXCEPT ![t] = 0]
           /\ instances' = [instances EXCEPT ![t] = 0]
      ELSE /\ pc' = [pc EXCEPT ![t] = IF kIsDynamic(call.category) THEN "check" ELSE "emit"]
           /\ inst' = [inst EXCEPT ![t] = n]
           /\ cur' = [cur EXCEPT ![t] = call]
           /\ callNo' = [callNo EXCEPT ![t] = k]
           /\ instances' = [instances EXCEPT ![t] = mask]

\* A trace point: CallIfCategoryEnabled, then TraceForCategory(instances, ..)
TracePoint(t, call) ==
  /\ Running
  /\ pc[t] = "idle"
  /\ calls' = calls + 1
  /\ IF ActiveInstances(call.category) # 0 /\ TrackDcheckFails(build, call)
     THEN /\ pc' = Abort(t)
          /\ cur' = [cur EXCEPT ![t] = call]
          /\ callNo' = [callNo EXCEPT ![t] = calls + 1]
          /\ instances' = [instances EXCEPT ![t] = ActiveInstances(call.category)]
          /\ UNCHANGED inst
     ELSE LoopNext(t, call, calls + 1, ActiveInstances(call.category), 0)
  /\ UNCHANGED <<build, catState, validInstances, registered, observers, config, lock, incrGen, tracks, erasedAt, tls,
                 out, enabledRet, first, argCalls, resetCalls, created, resets,
                 trackOps, ret>>

\* history of the epoch: forgotten when GetIncrementalState constructs a state
FirstAfterGet(t, i) == IF IsStale(tls[t][i], incrGen[i]) THEN EmptyCache ELSE first[t][i]
CreatedAfterGet(t, i) == IF IsStale(tls[t][i], incrGen[i]) THEN created[t][i] + 1 ELSE created[t][i]

\* value IsDynamicCategoryEnabled returns on a cache hit
CachedValue(st, name) == st.dynamic_categories[name]

\* (mutant) the lookup is made in the state the thread already has
LookupIncrementalState_Kept(st, gen) == st

\* auto incr_state = ctx->GetIncrementalState(): the state the cache lookup
\* is made in
LookupIncrementalState(st, gen) == GetIncrementalState(st, gen)

\* IsDynamicCategoryEnabled(&ctx, ..) up to the cache lookup: a hit returns the
\* cached value, a miss takes the instance's lock
DynCheck(t) ==
  /\ Running
  /\ pc[t] = "check"
  /\ LET i == inst[t]
         name == GetDynamicCategory(cur[t].category)
         st == LookupIncrementalState(tls[t][i], incrGen[i])
     IN  /\ tls' = [tls EXCEPT ![t][i] = st]
         /\ created' = [created EXCEPT ![t][i] = CreatedAfterGet(t, i)]
         /\ IF name \in DOMAIN st.dynamic_categories
            THEN /\ enabledRet' = [enabledRet EXCEPT ![t] = CachedValue(st, name)]
                 /\ first' = [first EXCEPT ![t][i] = FirstAfterGet(t, i)]
                 /\ IF CachedValue(st, name)
                    THEN /\ pc' = [pc EXCEPT ![t] = "emit"]
                         /\ UNCHANGED <<inst, cur, callNo, instances>>
                    ELSE LoopNext(t, cur[t], callNo[t], instances[t], i + 1)
                 /\ UNCHANGED lock
            ELSE /\ lock[i] = NoThread
                 /\ lock' = [lock EXCEPT ![i] = t]
                 /\ first' = [first EXCEPT ![t][i] = FirstAfterGet(t, i)]
                 /\ pc' = [pc EXCEPT ![t] = "locked"]
                 /\ UNCHANGED <<enabledRet, inst, cur, callNo, instances>>
  /\ UNCHANGED <<build, catState, validInstances, registered, observers, config, incrGen, tracks, erasedAt, out,
                 argCalls, resetCalls, calls, resets, trackOps, ret>>

\* (mutant) the computed value is returned and not stored
StoreDynamicCategory_NotStored(cache, name, enabled) == cache

\* (mutant) the negation of the computed value is stored
StoreDynamicCategory_Negated(cache, name, enabled) == (name :> ~enabled) @@ cache

\* the cache after the computed value was stored
StoreDynamicCategory(cache, name, enabled) == (name :> enabled) @@ cache

\* (mutant) the answer is kept where every thread tracing into the session
\* finds it
CacheAfterMiss_AllThreads(states, t, i, name, enabled) ==
  [t2 \in Threads |->
     [states[t2] EXCEPT ![i].dynamic_categories = StoreDynamicCategory(@, name, enabled)]]

\* (mutant) storing the answer also takes the pending reset as made
CacheAfterMiss_ClearsFlag(states, t, i, name, enabled) ==
  [states EXCEPT ![t][i].dynamic_categories = StoreDynamicCategory(@, name, enabled),
                 ![t][i].was_cleared = FALSE]

\* incr_state->dynamic_categories[name] = enabled: incr_state is the state of
\* the calling thread for the instance
CacheAfterMiss(states, t, i, name, enabled) ==
  [states EXCEPT ![t][i].dynamic_categories = StoreDynamicCategory(@, name, enabled)]

\* (mutant) |ds| outlives the return of IsDynamicCategoryEnabled
LockAfterReturn_Held(t, i) == lock

\* the lock when IsDynamicCategoryEnabled returns: |ds| goes out of scope
LockAfterReturn(t, i) == [lock EXCEPT ![i] = NoThread]

\* (mutant) every session is answered from the config of the first slot
DataSourceConfig_FirstSlot(cfgs, i) == cfgs[0]

\* ds->config_ with ds = ctx->GetDataSourceLocked(): the config of the
\* session the lambda runs for
DataSourceConfig(cfgs, i) == cfgs[i]

\* IsDynamicCategoryEnabled(&ctx, ..) on a miss, holding the lock: read the
\* session's config, store the answer, return it
DynResolve(t) ==
  /\ Running
  /\ pc[t] = "locked"
  /\ LET i == inst[t]
         name == GetDynamicCategory(cur[t].category)
         enabled == ConfigEnables(DataSourceConfig(config, i), name)
     IN  /\ tls' = CacheAfterMiss(tls, t, i, name, enabled)
         /\ first' = [first EXCEPT ![t][i] =
                        IF name \in DOMAIN @ THEN @ ELSE (name :> enabled) @@ @]
         /\ enabledRet' = [enabledRet EXCEPT ![t] = enabled]
         /\ lock' = LockAfterReturn(t, i)
         /\ IF enabled
            THEN /\ pc' = [pc EXCEPT ![t] = "emit"]
                 /\ UNCHANGED <<inst, cur, callNo, instances>>
            ELSE LoopNext(t, cur[t], callNo[t], instances[t], i + 1)
  /\ UNCHANGED <<build, catState, validInstances, registered, observers, config, incrGen, tracks, erasedAt, out,
                 argCalls, resetCalls, created, calls, resets, trackOps, ret>>

\* IsDynamicCategoryEnabled(&ctx, ..) in one piece, on the incremental state
\* |st| of the calling thread for a session with configuration |cfg|
IsDynamicCategoryEnabledCtx(st, gen, cfg, name) ==
  LET incr_state == GetIncrementalState(st, gen)
  IN  IF name \in DOMAIN incr_state.dynamic_categories
      THEN [st |-> incr_state, enabled |-> CachedValue(incr_state, name), miss |-> FALSE]
      ELSE [st |-> [incr_state EXCEPT !.dynamic_categories =
                      StoreDynamicCategory(@, name, ConfigEnables(cfg, name))],
            enabled |-> ConfigEnables(cfg, name), miss |-> TRUE]

RECURSIVE TraceQuery(_, _, _, _, _)
\* Base::Trace running the lambda of the public IsDynamicCategoryEnabled for
\* every active instance from |i| on: |q.enabled| is the variable the lambda
\* assigns to, |q.st| the calling thread's incremental states; |q.first| and
\* |q.created| are the history of the thread
TraceQuery(name, mask, i, t, q) ==
  IF i \notin Instances THEN q
  ELSE IF ~Bit(mask, i) THEN TraceQuery(name, mask, i + 1, t, q)
  ELSE LET r == IsDynamicCategoryEnabledCtx(q.st[i], incrGen[i], config[i], name)
           stale == IsStale(q.st[i], incrGen[i])
           f0 == IF stale THEN EmptyCache ELSE q.first[i]
       IN  TraceQuery(name, mask, i + 1, t,
             [st |-> [q.st EXCEPT ![i] = r.st],
              enabled |-> r.enabled,
              first |-> [q.first EXCEPT ![i] =
                           IF name \in DOMAIN f0 THEN f0 ELSE (name :> r.enabled) @@ f0],
              created |-> [q.created EXCEPT ![i] = IF stale THEN @ + 1 ELSE @]])

\* the sessions whose config the query has to read under their lock
QueryMisses(t, name) ==
  { i \in Instances :
      /\ Bit(validInstances, i)
      /\ IsDynamicCategoryEnabledCtx(tls[t][i], incrGen[i], config[i], name).miss }

\* IsDynamicCategoryEnabled(dynamic_category): bool enabled = false, then the
\* lambda for every active instance, then return enabled
IsDynamicCategoryEnabledCall(t, name) ==
  /\ Running
  /\ pc[t] = "idle"
  /\ \A i \in QueryMisses(t, name) : lock[i] = NoThread
  /\ LET q == TraceQuery(name, validInstances, 0, t,
                         [st |-> tls[t], enabled |-> FALSE,
                          first |-> first[t], created |-> created[t]])
     IN  /\ tls' = [tls EXCEPT ![t] = q.st]
         /\ first' = [first EXCEPT ![t] = q.first]
         /\ created' = [created EXCEPT ![t] = q.created]
         /\ ret' = [op |-> "IsDynamicCategoryEnabled", arg |-> name,
                    val |-> q.enabled, seq |-> 1 - ret.seq, seen |-> ret.seen]
  /\ UNCHANGED <<build, catState, validInstances, registered, observers, config, lock, incrGen, tracks, erasedAt,
                 out, pc, cur, callNo, instances, inst, enabledRet, argCalls,
                 resetCalls, calls, resets, trackOps>>

\* (mutant) the sessions a thread traces into share one incremental state
InstanceState_Shared(states, t, i) == states[t][0]

\* ctx.GetIncrementalState(): the calling thread's state for the instance
\* the lambda runs for
InstanceState(states, t, i) == states[t][i]

\* the rest of the lambda: timestamp, incremental state, track descriptor,
\* event, argument function
Emit(t) ==
  /\ Running
  /\ pc[t] = "emit"
  /\ IF ClockDcheckFails(build, TraceTimestamp(cur[t]))
     THEN /\ pc' = Abort(t)
          /\ UNCHANGED <<tls, out, resetCalls, created, first, argCalls, inst, cur,
                         callNo, instances>>
     ELSE LET i == inst[t]
              w == TraceLambda(tracks, cur[t], callNo[t], InstanceState(tls, t, i), incrGen[i], out[t][i])
          IN  /\ tls' = [tls EXCEPT ![t][i] = w.st]
              /\ out' = [out EXCEPT ![t][i] = w.log]
              /\ resetCalls' = [resetCalls EXCEPT ![t][i] = @ + w.nreset]
              /\ created' = [created EXCEPT ![t][i] = CreatedAfterGet(t, i)]
              /\ first' = [first EXCEPT ![t][i] = FirstAfterGet(t, i)]
              /\ argCalls' = [argCalls EXCEPT ![t][i] =
                                IF UserArgFunction(cur[t]) THEN @ + 1 ELSE @]
              /\ LoopNext(t, cur[t], callNo[t], instances[t], i + 1)
  /\ UNCHANGED <<build, catState, validInstances, registered, observers, config, lock, incrGen, tracks, erasedAt,
                 enabledRet, calls, resets, trackOps, ret>>

-----------------------------------------------------------------------------
(* Track descriptors *)

\* (mutant) the descriptor is written from the registry as it was before the
\* update
SetTrackDescriptorEffect_WriteFirst(reg, logs, valid, track, desc) ==
  [reg |-> UpdateTrack(reg, track, desc),
   logs |-> [i \in Instances |->
               IF Bit(valid, i) THEN WriteTrackDescriptor(reg, track, logs[i], "set")
               ELSE logs[i]]]

\* SetTrackDescriptor(track, desc): update the registry, then write the
\* descriptor with the trace writer of every active instance
SetTrackDescriptorEffect(reg, logs, valid, track, desc) ==
  LET reg2 == UpdateTrack(reg, track, desc)
  IN  [reg |-> reg2,
       logs |-> [i \in Instances |->
                   IF Bit(valid, i) THEN WriteTrackDescriptor(reg2, track, logs[i], "set")
                   ELSE logs[i]]]

SetTrackDescriptor(t, track, desc) ==
  /\ Running
  /\ pc[t] = "idle"
  /\ trackOps' = trackOps + 1
  /\ LET e == SetTrackDescriptorEffect(tracks, out[t], validInstances, track, desc)
     IN  /\ tracks' = e.reg
         /\ out' = [out EXCEPT ![t] = e.logs]
  /\ UNCHANGED <<build, catState, validInstances, registered, observers, config, lock, incrGen, tls, pc, cur,
                 callNo, instances, inst, enabledRet, first, argCalls,
                 resetCalls, created, calls, resets, ret, erasedAt>>

\* EraseTrackDescriptor(track)
EraseTrackDescriptor(t, track) ==
  /\ Running
  /\ pc[t] = "idle"
  /\ tracks' = EraseTrack(tracks, track)
  /\ erasedAt' = [t2 \in Threads |-> [i \in Instances |->
                     [erasedAt[t2][i] EXCEPT ![track.uuid] =
                        [has |-> TRUE, len |-> Len(out[t2][i]), calls |-> calls]]]]
  /\ UNCHANGED <<build, catState, validInstances, registered, observers, config, lock, incrGen, tls, out, pc,
                 cur, callNo, instances, inst, enabledRet, first, argCalls,
                 resetCalls, created, calls, resets, trackOps, ret>>

-----------------------------------------------------------------------------
(* Session observers *)

\* the observers an application may hand in: one more than there is room for
Observers == 1..(MaxObservers + 1)

\* TrackEventInternal::AddSessionObserver: the list and the result
InternalAddSessionObserver(list, o) ==
  IF Len(list) < MaxObservers
  THEN [list |-> Append(list, o), ok |-> TRUE]
  ELSE [list |-> list, ok |-> FALSE]

\* TrackEventInternal::RemoveSessionObserver
InternalRemoveSessionObserver(list, o) == SelectSeq(list, LAMBDA x : x # o)

\* (mutant) the result of the internal call is dropped
AddSessionObserverResult_AlwaysTrue(list, o) == TRUE

\* AddSessionObserver returns what TrackEventInternal::AddSessionObserver
\* returns; |refill| records that the call follows a remove from a full list
AddSessionObserverResult(list, o) == InternalAddSessionObserver(list, o).ok

AddSessionObserver(o) ==
  /\ Running
  /\ observers' = InternalAddSessionObserver(observers, o).list
  /\ ret' = [op |-> "AddSessionObserver", arg |-> o,
             val |-> AddSessionObserverResult(observers, o),
             refill |-> (ret.op = "RemoveSessionObserver" /\ ret.full),
             seq |-> 1 - ret.seq, seen |-> ret.seen]
  /\ UNCHANGED <<build, catState, validInstances, registered, config, lock, incrGen, tracks,
                 erasedAt, tls, out, pc, cur, callNo, instances, inst, enabledRet,
                 first, argCalls, resetCalls, created, calls, resets, trackOps>>

RemoveSessionObserver(o) ==
  /\ Running
  /\ observers' = InternalRemoveSessionObserver(observers, o)
  /\ ret' = [op |-> "RemoveSessionObserver", arg |-> o,
             full |-> (Len(observers) = MaxObservers /\ observers' # observers),
             seq |-> 1 - ret.seq, seen |-> ret.seen]
  /\ UNCHANGED <<build, catState, validInstances, registered, config, lock, incrGen, tracks,
                 erasedAt, tls, out, pc, cur, callNo, instances, inst, enabledRet,
                 first, argCalls, resetCalls, created, calls, resets, trackOps>>

-----------------------------------------------------------------------------
(* Session controller *)

\* Register(): the data source is made known to the tracing service, which
\* sets up sessions of registered data sources only
Register ==
  /\ Running
  /\ ~registered
  /\ registered' = TRUE
  /\ UNCHANGED <<build, catState, validInstances, observers, config, lock, incrGen, tracks, erasedAt,
                 tls, out, pc, cur, callNo, instances, inst, enabledRet, first,
                 argCalls, resetCalls, created, calls, resets, trackOps, ret>>

\* the sequences of a session are torn down with it: in a new session of the
\* slot every thread starts a new sequence, |v| being what a new sequence has
SequencesOfNewSession(f, i, v) ==
  [t \in Threads |-> [f[t] EXCEPT ![i] = v]]

\* OnSetup: parse the session's config, enable its categories
OnSetup(i, cfg) ==
  /\ Running
  /\ registered
  /\ ~Bit(validInstances, i)
  /\ lock[i] = NoThread
  /\ config' = [config EXCEPT ![i] = cfg]
  /\ catState' = EnableTracing(catState, cfg, i)
  /\ validInstances' = SetBit(validInstances, i)
  /\ tls' = SequencesOfNewSession(tls, i, NoTls)
  /\ out' = SequencesOfNewSession(out, i, <<>>)
  /\ first' = SequencesOfNewSession(first, i, EmptyCache)
  /\ argCalls' = SequencesOfNewSession(argCalls, i, 0)
  /\ resetCalls' = SequencesOfNewSession(resetCalls, i, 0)
  /\ created' = SequencesOfNewSession(created, i, 0)
  /\ erasedAt' = SequencesOfNewSession(erasedAt, i, [u \in TrackUuids |-> NotErased])
  /\ UNCHANGED <<build, lock, incrGen, tracks, pc, cur, callNo, instances,
                 inst, enabledRet, calls, resets, trackOps, ret, registered, observers>>

\* OnStop: disable the session's categories
OnStop(i) ==
  /\ Running
  /\ Bit(validInstances, i)
  /\ lock[i] = NoThread
  /\ catState' = DisableTracing(catState, i)
  /\ validInstances' = ClearBit(validInstances, i)
  /\ UNCHANGED <<build, config, lock, incrGen, tracks, erasedAt, tls, out, pc, cur, callNo,
                 instances, inst, enabledRet, first, argCalls, resetCalls,
                 created, calls, resets, trackOps, ret, registered, observers>>

\* The service asks for the incremental state of an instance to be cleared:
\* every thread's state for it is rebuilt at its next GetIncrementalState.
ClearIncrementalState(i) ==
  /\ Running
  /\ Bit(validInstances, i)
  /\ resets < MaxResets
  /\ resets' = resets + 1
  /\ incrGen' = [incrGen EXCEPT ![i] = @ + 1]
  /\ UNCHANGED <<build, catState, validInstances, registered, observers, config, lock, tracks, erasedAt, tls, out, pc,
                 cur, callNo, instances, inst, enabledRet, first, argCalls,
                 resetCalls, created, calls, trackOps, ret>>

-----------------------------------------------------------------------------
(* Specification *)

\* the trace points of a call site: a category and one of the overloads
CallsOf(cats, kinds, trs) ==
  { TraceForCategory(c, k, n, ty, tr, ts, now) :
      c \in cats, k \in kinds, n \in EventNames, ty \in EventTypes,
      tr \in trs, ts \in SuppliedTimestamps, now \in ClockReadings }

\* what the session controller does to instance i
Controller(i) ==
  \/ Register
  \/ \E cfg \in Configs : OnSetup(i, cfg)
  \/ OnStop(i)
  \/ ClearIncrementalState(i)

\* One thread tracing into every session, static and dynamic categories.
CoreCalls ==
  CallsOf({StaticCategory(0), DynamicCategory(<<"b">>)},
          {"none", "track"}, ExplicitTracks)

Next ==
  \/ \E call \in CoreCalls : calls < MaxCalls /\ TracePoint(1, call)
  \/ DynCheck(1)
  \/ DynResolve(1)
  \/ Emit(1)
  \/ \E i \in Instances : Controller(i)

Spec == Init /\ [][Next]_vars

\* Threads tracing concurrently into one session.
ConcCalls ==
  CallsOf({StaticCategory(0), DynamicCategory(<<"b">>)}, {"none", "lambda"}, RegisteredTracks)

NextConc ==
  \/ \E t \in Threads, call \in ConcCalls : calls < MaxConcCalls /\ TracePoint(t, call)
  \/ \E t \in Threads : DynCheck(t)
  \/ \E t \in Threads : DynResolve(t)
  \/ \E t \in Threads : Emit(t)
  \/ Controller(0)

SpecConc == Init /\ [][NextConc]_vars

\* One thread issuing every overload of the trace point.
ShapeCalls == CallsOf({StaticCategory(1), DynamicCategory(<<"b">>)}, ShapeKinds, ExplicitTracks)

NextShapes ==
  \/ \E call \in ShapeCalls : calls < MaxShapeCalls /\ TracePoint(1, call)
  \/ DynCheck(1)
  \/ DynResolve(1)
  \/ Emit(1)
  \/ Register
  \/ \E i \in Instances, cfg \in Configs : OnSetup(i, cfg)
  \/ \E i \in Instances : OnStop(i)

SpecShapes == Init /\ [][NextShapes]_vars

\* One thread tracing with every category, single names and groups.
GroupCalls == CallsOf(Categories, {"none", "track"}, ExplicitTracks)

NextGroups ==
  \/ \E call \in GroupCalls : calls < MaxCalls /\ TracePoint(1, call)
  \/ DynCheck(1)
  \/ DynResolve(1)
  \/ Emit(1)
  \/ Register
  \/ \E i \in Instances, cfg \in Configs : OnSetup(i, cfg)
  \/ \E i \in Instances : OnStop(i)

SpecGroups == Init /\ [][NextGroups]_vars

\* One thread tracing with timestamps of both types.
ClockCalls ==
  { WithTimestampType(call, ty) :
      call \in CallsOf({StaticCategory(0)}, {"none", "lambda_ts", "track_ts"}, RegisteredTracks),
      ty \in TimestampTypes }

NextClock ==
  \/ \E call \in ClockCalls : calls < MaxCalls /\ TracePoint(1, call)
  \/ Emit(1)
  \/ \E i \in Instances : Controller(i)

SpecClock == Init /\ [][NextClock]_vars

\* One thread asking whether dynamic categories are enabled.
NextDynQuery ==
  \/ \E name \in DynNames : IsDynamicCategoryEnabledCall(1, name)
  \/ \E i \in Instances : Controller(i)

SpecDynQuery == Init /\ [][NextDynQuery]_vars

\* A thread tracing on a track while the track registry is updated.
TrackCalls == CallsOf({StaticCategory(0)}, {"track"}, RegisteredTracks)

NextTracks ==
  \/ \E call \in TrackCalls : calls < MaxCalls /\ TracePoint(1, call)
  \/ Emit(1)
  \/ \E t \in Threads, tr \in RegisteredTracks, d \in Descs :
       trackOps < MaxTrackOps /\ SetTrackDescriptor(t, tr, d)
  \/ \E t \in Threads, tr \in RegisteredTracks : EraseTrackDescriptor(t, tr)
  \/ Controller(0)

SpecTracks == Init /\ [][NextTracks]_vars

\* A thread tracing on tracks that are erased from the track registry.
EraseCalls == CallsOf({StaticCategory(0)}, {"track"}, ExplicitTracks)

NextErase ==
  \/ \E call \in EraseCalls : calls < MaxCalls /\ TracePoint(1, call)
  \/ Emit(1)
  \/ \E t \in Threads, tr \in RegisteredTracks, d \in Descs :
       trackOps < MaxEraseSets /\ SetTrackDescriptor(t, tr, d)
  \/ \E t \in Threads, tr \in ExplicitTracks : EraseTrackDescriptor(t, tr)
  \/ Controller(0)

SpecErase == Init /\ [][NextErase]_vars

\* Enablement queries racing with the session controller.
NextQuery ==
  \/ \E t \in Threads, c \in StaticCats : IsCategoryEnabledCall(t, c)
  \/ \E i \in Instances : Controller(i)

SpecQuery == Init /\ [][NextQuery]_vars

\* Both enablement queries, made at any time from before Register() on,
\* while a thread traces.
PureCalls == CallsOf({StaticCategory(0)}, {"track"}, RegisteredTracks)

NextPure ==
  \/ \E t \in Threads, c \in StaticCats : IsCategoryEnabledCall(t, c)
  \/ \E t \in Threads : IsEnabledCall(t)
  \/ \E call \in PureCalls : calls < MaxShapeCalls /\ TracePoint(1, call)
  \/ Emit(1)
  \/ \E i \in Instances : Controller(i)

SpecPure == Init /\ [][NextPure]_vars

\* Observers added and removed while sessions come and go.
NextObservers ==
  \/ \E o \in Observers : AddSessionObserver(o)
  \/ \E o \in Observers : RemoveSessionObserver(o)
  \/ Controller(0)

SpecObservers == Init /\ [][NextObservers]_vars

-----------------------------------------------------------------------------
(* Helpers of the properties *)

\* positions of the event records in a log
EventPositions(log) == { p \in 1..Len(log) : log[p].kind = "event" }

NumEvents(log) == Cardinality(EventPositions(log))

\* a step that wrote an event record for (t, i) or ran the argument function
Emitted(t, i) ==
  \/ NumEvents(out'[t][i]) > NumEvents(out[t][i])
  \/ argCalls'[t][i] > argCalls[t][i]

\* the packets a step appended to the output of (t, i)
NewPackets(t, i) == SubSeq(out'[t][i], Len(out[t][i]) + 1, Len(out'[t][i]))

\* a step in which the lambda of a trace point wrote its event for (t, i)
WroteEvent(t, i) == NumEvents(out'[t][i]) > NumEvents(out[t][i])

\* the cleared flag as the trace point finds it: set in the state it holds,
\* or in the state GetIncrementalState is about to construct
ClearedFlagSet(t, i) == IsStale(tls[t][i], incrGen[i]) \/ tls[t][i].was_cleared

\* a step that is the OnSetup of a session in slot i: its sequences are new
SessionStarts(i) == ~Bit(validInstances, i) /\ Bit(validInstances', i)

\* a step in which IsDynamicCategoryEnabled(&ctx, ..) returns on thread t,
\* and the value it returns
DynReturns(t) ==
  /\ pc[t] \in {"check", "locked"}
  /\ pc'[t] = "emit" \/ inst'[t] # inst[t]
DynReturned(t) == enabledRet'[t]

\* the dynamic category name thread t is evaluating
DynName(t) == GetDynamicCategory(cur[t].category)

PositionsOf(log, kind) == { p \in 1..Len(log) : log[p].kind = kind }

-----------------------------------------------------------------------------
(* C1: a trace point of any shape whose category is disabled for a session *)
(* (static: the registry byte has no bit for the session when the trace    *)
(* point reads it; dynamic: IsDynamicCategoryEnabled returned false for    *)
(* the session) neither runs the argument function for that session nor    *)
(* writes an event record to its output.                                   *)

C1_CalledBackWithRegistryByte ==
  \A t \in Threads :
    (pc[t] = "idle" /\ pc'[t] # "idle" /\ ~kIsDynamic(cur'[t].category)) =>
      \A i \in Instances :
        ~Bit(catState[GetStaticIndex(cur'[t].category)], i) => ~Bit(instances'[t], i)

C1_EmitsOnlyWhereEnabled ==
  \A t \in Threads, i \in Instances :
    Emitted(t, i) =>
      /\ Bit(instances[t], i)
      /\ inst[t] = i
      /\ kIsDynamic(cur[t].category) => enabledRet[t]

C1_DisabledNeverEmits ==
  [][C1_CalledBackWithRegistryByte /\ C1_EmitsOnlyWhereEnabled]_vars

\* a trace point with a caller-supplied argument function reached one
\* session while another active session, for which the category is
\* disabled, got nothing
C1_Witness ==
  \E i, j \in Instances :
    /\ Bit(validInstances, i) /\ Bit(validInstances, j)
    /\ calls > 0 /\ pc[1] = "idle"
    /\ out[1][i] = <<>> /\ argCalls[1][i] = 0
    /\ NumEvents(out[1][j]) > 0 /\ argCalls[1][j] > 0

-----------------------------------------------------------------------------
(* Epochs of a sequence's output: an epoch starts at a reset packet *)

\* position of the last reset packet before p, 0 when there is none
EpochStart(log, p) ==
  LET rs == { q \in 1..(p - 1) : log[q].kind = "reset" }
  IN  IF rs = {} THEN 0 ELSE CHOOSE q \in rs : \A r \in rs : r <= q

\* descriptors of track u written between the start of p's epoch and p
DescriptorsBefore(log, p, u) ==
  { q \in (EpochStart(log, p) + 1)..(p - 1) : log[q].kind = "desc" /\ log[q].uuid = u }

\* descriptors of track u that trace points wrote in the epoch position p is in
EmittedInEpoch(log, p, u) ==
  { q \in 1..Len(log) :
      /\ log[q].kind = "desc" /\ log[q].uuid = u /\ log[q].by = "emit"
      /\ EpochStart(log, q) = EpochStart(log, p) }

\* event records that carry a track uuid
TrackEvents(log) == { p \in EventPositions(log) : log[p].track # NoTrackId }

-----------------------------------------------------------------------------
(* C2: in every sequence's output every event record that references a     *)
(* track is preceded, within the same epoch, by that track's descriptor,   *)
(* and trace points write that descriptor exactly once per epoch.          *)

C2_DescriptorBeforeEvent ==
  \A t \in Threads, i \in Instances :
    \A p \in TrackEvents(out[t][i]) :
      /\ DescriptorsBefore(out[t][i], p, out[t][i][p].track) # {}
      /\ Cardinality(EmittedInEpoch(out[t][i], p, out[t][i][p].track)) = 1

\* the same statement for the tracks whose uuid is not 0
C2_DescriptorBeforeEventNonZero ==
  \A t \in Threads, i \in Instances :
    \A p \in TrackEvents(out[t][i]) :
      out[t][i][p].track # 0 =>
        /\ DescriptorsBefore(out[t][i], p, out[t][i][p].track) # {}
        /\ Cardinality(EmittedInEpoch(out[t][i], p, out[t][i][p].track)) = 1

-----------------------------------------------------------------------------
(* C3: within one sequence the event records appear in the order in which  *)
(* the owning thread issued the trace points (trace points are numbered in *)
(* the order they are issued), whatever other threads and the session      *)
(* controller do in between.                                               *)

C3_RecordsInCallOrder ==
  \A t \in Threads, i \in Instances :
    \A p, q \in EventPositions(out[t][i]) :
      p < q => out[t][i][p].call < out[t][i][q].call

\* a sequence holds the records of two trace points of its thread, and
\* another thread's trace point, issued between the two, was written too
C3_Witness ==
  \E i \in Instances :
    \E p, q \in EventPositions(out[1][i]), r \in EventPositions(out[2][i]) :
    /\ p < q
    /\ out[1][i][p].call < out[2][i][r].call
    /\ out[2][i][r].call < out[1][i][q].call

-----------------------------------------------------------------------------
(* C4: a trace point that writes to a sequence whose cleared flag is set   *)
(* makes exactly one ResetIncrementalState call, leaves the flag unset and *)
(* writes the descriptor of its track once, after the reset packet and     *)
(* before its event; a trace point that finds the flag unset makes no      *)
(* ResetIncrementalState call and writes no descriptor of a track whose    *)
(* descriptor the epoch already holds.                                     *)

C4_Step(t, i) ==
  LET new == NewPackets(t, i)
      u == cur[t].track.uuid
      descs == { p \in PositionsOf(new, "desc") : new[p].uuid = u }
  IN  IF ClearedFlagSet(t, i)
      THEN /\ resetCalls'[t][i] = resetCalls[t][i] + 1
           /\ PositionsOf(new, "reset") = {1}
           /\ ~tls'[t][i].was_cleared
           /\ TrackBool(cur[t].track) => descs = {2} /\ new[3].kind = "event"
      ELSE /\ resetCalls'[t][i] = resetCalls[t][i]
           /\ PositionsOf(new, "reset") = {}
           /\ ~tls'[t][i].was_cleared
           /\ u \in tls[t][i].seen_tracks => descs = {}

C4_OneRebuildPerReset ==
  [][\A t \in Threads, i \in Instances : WroteEvent(t, i) => C4_Step(t, i)]_vars

\* a sequence was reset after it wrote a track's descriptor, and the next
\* trace point on that track rebuilt the state and wrote the descriptor again
C4_Witness ==
  \E i \in Instances :
    LET log == out[1][i]
    IN  /\ resetCalls[1][i] = 2
        /\ Len(log) = 6
        /\ log[1].kind = "reset" /\ log[2].kind = "desc" /\ log[3].kind = "event"
        /\ log[4].kind = "reset" /\ log[5].kind = "desc" /\ log[6].kind = "event"
        /\ log[2].uuid = log[5].uuid /\ log[3].track = log[6].track

-----------------------------------------------------------------------------
(* C5: within one epoch of a sequence every evaluation of                  *)
(* IsDynamicCategoryEnabled for a name after the first returns the value   *)
(* the first one returned, also when the session's config has changed.     *)

C5_LaterEvaluationsReturnFirstValue ==
  [][\A t \in Threads :
       (DynReturns(t) /\ DynName(t) \in DOMAIN FirstAfterGet(t, inst[t])) =>
         DynReturned(t) = FirstAfterGet(t, inst[t])[DynName(t)]]_vars

\* the second trace point of a thread on a dynamic name, in the epoch in
\* which its first trace point on the name wrote an event, was answered with
\* the value of the epoch's first evaluation
C5_Witness ==
  \E i \in Instances :
    /\ pc[1] = "emit" /\ inst[1] = i /\ kIsDynamic(cur[1].category)
    /\ callNo[1] = 2 /\ created[1][i] = 1
    /\ DynName(1) \in DOMAIN first[1][i]
    /\ DynName(1) \in DOMAIN tls[1][i].dynamic_categories
    /\ enabledRet[1] = first[1][i][DynName(1)]
    /\ \E p \in EventPositions(out[1][i]) :
         /\ out[1][i][p].call = 1
         /\ out[1][i][p].categories = CategoryTags(cur[1].category)

-----------------------------------------------------------------------------
(* C6: every call of IsCategoryEnabled(C) returns true iff some session's  *)
(* bit is set in the registry byte of C at the time of the call, also when *)
(* the controller changed the byte since the preceding call for C.         *)

C6_QueryReadsRegistryByte ==
  [][ret' # ret =>
       /\ ret'.op = "IsCategoryEnabled"
       /\ catState' = catState
       /\ ret'.val = (\E i \in Instances : Bit(catState[ret'.arg], i))]_vars

\* a call returned the opposite of what the preceding call for the same
\* category returned
C6_Witness ==
  /\ ret.op = "IsCategoryEnabled"
  /\ ret.prior = <<~ret.val>>
  /\ ret.val = (catState[ret.arg] # 0)

-----------------------------------------------------------------------------
(* Trace points issued after an erase *)

\* descriptors of track u in log at the positions from..to
DescriptorsBetween(log, from, to, u) ==
  { q \in from..to : log[q].kind = "desc" /\ log[q].uuid = u }

\* events of sequence (t, i) on track u whose trace point was issued after
\* the last EraseTrackDescriptor of u
EventsAfterErase(t, i, u) ==
  { p \in EventPositions(out[t][i]) :
      /\ erasedAt[t][i][u].has
      /\ out[t][i][p].track = u
      /\ out[t][i][p].call > erasedAt[t][i][u].calls }

\* a step that is an EraseTrackDescriptor of u
Erases(u) ==
  /\ \A i \in Instances : ~SessionStarts(i)
  /\ \E t \in Threads, i \in Instances : erasedAt'[t][i][u] # erasedAt[t][i][u]

\* the descriptors of the trace point's track among the packets a step wrote
NewDescriptors(t, i) ==
  DescriptorsBetween(NewPackets(t, i), 1, Len(NewPackets(t, i)), cur[t].track.uuid)

-----------------------------------------------------------------------------
(* C7 as stated: in every sequence, every event on a track whose trace     *)
(* point was issued after EraseTrackDescriptor(track) has a descriptor of  *)
(* the track between the sequence's position at the erase and the event    *)
(* (stated for the tracks whose uuid is not 0, the others have no          *)
(* descriptor written by any trace point).                                 *)

C7_ReemittedAfterErase ==
  \A t \in Threads, i \in Instances, u \in TrackUuids :
    \A p \in EventsAfterErase(t, i, u) :
      u # 0 =>
      DescriptorsBetween(out[t][i], erasedAt[t][i][u].len + 1, p - 1, u) # {}

(* C7 as the code has it: EraseTrackDescriptor(track) removes the track's  *)
(* descriptor from the registry and changes no sequence; a trace point on  *)
(* the track issued after it writes the descriptor, once and before its    *)
(* event, iff the track's uuid is not 0 and the sequence has not written   *)
(* the track's descriptor in this epoch.                                   *)

C7_EraseStep ==
  \A u \in TrackUuids :
    Erases(u) => tracks'[u] = NoDesc /\ tls' = tls /\ out' = out

C7_TraceStep(t, i) ==
  LET u == cur[t].track.uuid
      new == NewPackets(t, i)
      known == ~IsStale(tls[t][i], incrGen[i]) /\ u \in tls[t][i].seen_tracks
  IN  (erasedAt[t][i][u].has /\ callNo[t] > erasedAt[t][i][u].calls) =>
        IF known \/ ~TrackBool(cur[t].track) THEN NewDescriptors(t, i) = {}
        ELSE /\ Cardinality(NewDescriptors(t, i)) = 1
             /\ \A q \in NewDescriptors(t, i) : q < Len(new) /\ new[Len(new)].kind = "event"

C7_ErasedTrackWrittenOncePerEpoch ==
  [][/\ C7_EraseStep
     /\ \A t \in Threads, i \in Instances : WroteEvent(t, i) => C7_TraceStep(t, i)]_vars

\* a sequence wrote a track's descriptor, the track was erased, and the
\* sequence's next event on the track, in the same epoch, has no descriptor
\* of the track after the erase
C7_Witness ==
  \E t \in Threads, i \in Instances, u \in TrackUuids :
    /\ tracks[u] = NoDesc
    /\ \E p \in EventsAfterErase(t, i, u) :
         /\ DescriptorsBetween(out[t][i], erasedAt[t][i][u].len + 1, p - 1, u) = {}
         /\ DescriptorsBetween(out[t][i], EpochStart(out[t][i], p) + 1,
                               erasedAt[t][i][u].len, u) # {}

-----------------------------------------------------------------------------
(* What a reader of the trace holds for a track *)

\* the last descriptor of track u in a sequence, NoDesc when there is none
TrackInTrace(log, u) ==
  LET ds == DescriptorsBetween(log, 1, Len(log), u)
  IN  IF ds = {} THEN NoDesc ELSE log[CHOOSE q \in ds : \A r \in ds : r <= q].desc

\* two descriptor packets of SetTrackDescriptor, one after the other, for
\* the same track and with the same descriptor
SetTwice(log) ==
  \E q \in 1..(Len(log) - 1) :
    /\ log[q].kind = "desc" /\ log[q].by = "set"
    /\ log[q + 1] = log[q]

-----------------------------------------------------------------------------
(* C8: in every state, SetTrackDescriptor(track, desc) made twice leaves   *)
(* the track registry, and the descriptor every sequence of the calling    *)
(* thread holds for the track, as SetTrackDescriptor(track, desc) made     *)
(* once leaves them.                                                       *)

C8_SetTrackDescriptorIdempotent ==
  \A t \in Threads, track \in RegisteredTracks, desc \in Descs :
    LET once == SetTrackDescriptorEffect(tracks, out[t], validInstances, track, desc)
        twice == SetTrackDescriptorEffect(once.reg, once.logs, validInstances, track, desc)
    IN  /\ twice.reg = once.reg
        /\ \A i \in Instances :
             TrackInTrace(twice.logs[i], track.uuid) = TrackInTrace(once.logs[i], track.uuid)

\* a thread made the same SetTrackDescriptor call twice in a row while a
\* session was active, after the track had another descriptor
C8_Witness ==
  \E t \in Threads, i \in Instances, u \in TrackUuids :
    /\ SetTwice(out[t][i])
    /\ TrackInTrace(out[t][i], u) = tracks[u]
    /\ tracks[u] # NoDesc
    /\ trackOps >= 2

-----------------------------------------------------------------------------
(* C9: a thread holds no session lock in any step in which it writes a     *)
(* packet (reset, track descriptor, event), makes a ResetIncrementalState  *)
(* call or runs the argument function, neither before nor after the step.  *)

\* a step in which thread t calls into the writer or the application
CallsOut(t) ==
  \E i \in Instances :
    \/ out'[t][i] # out[t][i]
    \/ argCalls'[t][i] # argCalls[t][i]
    \/ resetCalls'[t][i] # resetCalls[t][i]

C9_LockNotHeldWhileEmitting ==
  [][\A t \in Threads :
       CallsOut(t) => \A i \in Instances : lock[i] # t /\ lock'[i] # t]_vars

\* a thread that took the lock on a cache miss is about to write its event
\* while another thread holds the lock of the same session
C9_Witness ==
  \E i \in Instances :
    /\ pc[1] = "emit" /\ inst[1] = i /\ kIsDynamic(cur[1].category)
    /\ created[1][i] = 1 /\ NumEvents(out[1][i]) = 0
    /\ lock[i] = 2 /\ pc[2] = "locked"

-----------------------------------------------------------------------------
(* C10: a thread takes the session lock only while evaluating a dynamic    *)
(* category name for the first time in the epoch of the sequence; an       *)
(* evaluation of a name that was evaluated before in the epoch returns     *)
(* without a change of any lock.                                           *)

\* a step in which thread t takes the lock of a session
Acquires(t) == \E i \in Instances : lock[i] # t /\ lock'[i] = t

C10_Step(t) ==
  /\ Acquires(t) =>
       /\ pc[t] = "check" /\ pc'[t] = "locked" /\ lock'[inst[t]] = t
       /\ DynName(t) \notin DOMAIN FirstAfterGet(t, inst[t])
  /\ (pc[t] = "check" /\ pc'[t] # "check"
      /\ DynName(t) \in DOMAIN FirstAfterGet(t, inst[t])) =>
       /\ lock' = lock
       /\ pc'[t] # "locked"

C10_LockOnlyOnFirstEvaluation == [][\A t \in Threads : C10_Step(t)]_vars

\* a sequence whose incremental state was constructed once holds the events
\* of two trace points of a dynamic category: the second evaluation found
\* the name in the cache
C10_Witness ==
  \E t \in Threads, i \in Instances :
    /\ created[t][i] = 1 /\ resets = 0
    /\ Cardinality({ p \in EventPositions(out[t][i]) :
                       out[t][i][p].static = kDynamicCategoryIndex }) >= 2
    /\ lock[i] = NoThread

-----------------------------------------------------------------------------
(* C11: a step changes the incremental state of a thread only if it is a   *)
(* step of that thread's own trace point, and it changes no other thread's *)
(* state; a thread that resolves an uncached dynamic name adds the answer  *)
(* it computed from the session's config to its own cache and to no other. *)
(* No trace point is involved when a session starts in a slot and the      *)
(* sequences of the slot's former session are gone.                        *)

\* a step taken by thread t inside a trace point
StepOf(t) == pc[t] # "idle" /\ <<pc'[t], inst'[t]>> # <<pc[t], inst[t]>>

C11_Step(t) ==
  /\ tls'[t] # tls[t] =>
       \/ \E i \in Instances :
            /\ SessionStarts(i)
            /\ \A i2 \in Instances \ {i} : tls'[t][i2] = tls[t][i2]
       \/ /\ StepOf(t)
          /\ \A t2 \in Threads \ {t} : tls'[t2] = tls[t2]
          /\ \A i \in Instances \ {inst[t]} : tls'[t][i] = tls[t][i]
  /\ (pc[t] = "locked" /\ StepOf(t)) =>
       /\ DynName(t) \in DOMAIN tls'[t][inst[t]].dynamic_categories
       /\ tls'[t][inst[t]].dynamic_categories[DynName(t)] =
            ConfigEnables(config[inst[t]], DynName(t))
       /\ \A t2 \in Threads \ {t} : tls'[t2] = tls[t2]

C11_StateTouchedByOwnerOnly == [][\A t \in Threads : C11_Step(t)]_vars

\* a thread is computing its own answer for a name, holding the lock, while
\* another thread's state for the same session has the name cached already
C11_Witness ==
  \E i \in Instances :
    /\ pc[2] = "locked" /\ inst[2] = i
    /\ DynName(2) \notin DOMAIN tls[2][i].dynamic_categories
    /\ DynName(2) \in DOMAIN tls[1][i].dynamic_categories
    /\ ~IsStale(tls[1][i], incrGen[i])

-----------------------------------------------------------------------------
(* C12: a trace point on a static category reads the registry byte as it   *)
(* is when the trace point is issued and writes one event for every        *)
(* session of that byte, in order, and for no other: a trace point issued  *)
(* after a flip is neither included nor excluded wrongly, and the only     *)
(* event a thread writes for a session after its disable is that of the    *)
(* one trace point it had in flight, which cannot write to it again.       *)

\* a step in which a trace point is issued
Issues == calls' = calls + 1

\* the registry byte (static) or the active instances (dynamic) a trace
\* point of the category finds
ByteOf(category) ==
  IF kIsDynamic(category) THEN validInstances ELSE catState[GetStaticIndex(category)]

C12_Issue ==
  Issues =>
    /\ \A t \in Threads :
         pc'[t] # pc[t] =>
           /\ instances'[t] = ByteOf(cur'[t].category)
           /\ \A i \in Instances : i < inst'[t] => ~Bit(instances'[t], i)
    /\ pc' = pc => \E call \in CoreCalls : ByteOf(call.category) = 0

C12_Loop(t) ==
  (StepOf(t) /\ pc[t] = "emit" /\ ~kIsDynamic(cur[t].category)) =>
    /\ Bit(instances[t], inst[t])
    /\ Len(NewPackets(t, inst[t])) > 0
    /\ NewPackets(t, inst[t])[Len(NewPackets(t, inst[t]))].call = callNo[t]
    /\ \A i \in Instances :
         (inst[t] < i /\ (pc'[t] = "idle" \/ i < inst'[t])) => ~Bit(instances[t], i)
    /\ pc'[t] # "idle" => inst'[t] > inst[t] /\ instances'[t] = instances[t]

C12_Written(t) ==
  \A i \in Instances :
    (WroteEvent(t, i) /\ ~kIsDynamic(cur[t].category)) =>
      /\ inst[t] = i
      /\ Bit(instances[t], i)
      /\ NumEvents(out'[t][i]) = NumEvents(out[t][i]) + 1
      /\ inst'[t] # i

-----------------------------------------------------------------------------
(* Emissions delivered to several sessions *)

\* a step in which the lambda of thread t's trace point runs its emission
Emits(t) == StepOf(t) /\ pc[t] = "emit"

\* the first session of the mask the trace point was called back with
FirstInstance(t) == NextInstance(instances[t], 0)

\* packets of a kind among the packets a step wrote for (t, i)
NewOf(t, i, kind) == PositionsOf(NewPackets(t, i), kind)

-----------------------------------------------------------------------------
(* C13 as stated: every session of an emission gets its own event record,  *)
(* and the reset and the track descriptor are written only when the lambda *)
(* runs for the first session of the emission.                             *)

C13_OnlyFirstInstanceResets ==
  [][\A t \in Threads :
       Emits(t) =>
         /\ Cardinality(NewOf(t, inst[t], "event")) = 1
         /\ inst[t] # FirstInstance(t) =>
              NewOf(t, inst[t], "reset") = {} /\ NewOf(t, inst[t], "desc") = {}]_vars

(* C13 as the code has it: every session of an emission gets its own event *)
(* record in its own output, and for every session, first or not, the      *)
(* reset is written iff the thread's incremental state for that session    *)
(* has the cleared flag set, and the track descriptor iff the track's uuid *)
(* is not 0 and that state has not seen the track.                         *)

C13_Step(t) ==
  LET i == inst[t]
      u == cur[t].track.uuid
      known == ~IsStale(tls[t][i], incrGen[i]) /\ u \in tls[t][i].seen_tracks
  IN  /\ Cardinality(NewOf(t, i, "event")) = 1
      /\ \A j \in Instances \ {i} : out'[t][j] = out[t][j] /\ tls'[t][j] = tls[t][j]
      /\ (NewOf(t, i, "reset") # {}) = ClearedFlagSet(t, i)
      /\ (NewOf(t, i, "desc") # {}) = (TrackBool(cur[t].track) /\ ~known)

C13_EachInstanceKeepsItsOwnState ==
  [][\A t \in Threads : Emits(t) => C13_Step(t)]_vars

\* one trace point wrote a reset, a track descriptor and its event to the
\* outputs of two sessions
C13_Witness ==
  \E i, j \in Instances :
    /\ i < j
    /\ \E p \in EventPositions(out[1][i]), q \in EventPositions(out[1][j]) :
         /\ out[1][i][p].call = out[1][j][q].call
         /\ p = 3 /\ q = 3
         /\ out[1][i][1].kind = "reset" /\ out[1][j][1].kind = "reset"
         /\ out[1][i][2].kind = "desc" /\ out[1][j][2].kind = "desc"

-----------------------------------------------------------------------------
(* C14: a call of IsCategoryEnabled or IsEnabled changes nothing but its   *)
(* own result (no registry byte, no incremental state, no output, no       *)
(* other state of the data source), and it returns false when the data     *)
(* source is not registered or has no active session.                      *)

\* everything but the result of the query
AllButRet ==
  <<build, catState, validInstances, registered, observers, config, lock, incrGen, tracks, erasedAt,
    tls, out, pc, cur, callNo, instances, inst, enabledRet, first, argCalls,
    resetCalls, created, calls, resets, trackOps>>

C14_QueriesArePureReads ==
  [][ret' # ret =>
       /\ ret'.op \in {"IsCategoryEnabled", "IsEnabled"}
       /\ AllButRet' = AllButRet
       /\ (~registered \/ validInstances = 0) => ret'.val = FALSE]_vars

\* IsEnabled returned false for a registered data source whose sessions
\* were all stopped, with what a thread had traced left as it was
C14_Witness ==
  /\ ret.op = "IsEnabled" /\ ret.val = FALSE
  /\ registered /\ validInstances = 0
  /\ \E i \in Instances : NumEvents(out[1][i]) > 0

-----------------------------------------------------------------------------
(* C15: AddSessionObserver returns true and appends the observer while the *)
(* list holds fewer than MaxObservers observers, and returns false and     *)
(* leaves the list as it is when the list is full; after                   *)
(* RemoveSessionObserver of an observer in the list the list has room, so  *)
(* that the next add returns true.                                         *)

C15_Step ==
  /\ (ret' # ret /\ ret'.op = "AddSessionObserver") =>
       IF Len(observers) < MaxObservers
       THEN ret'.val = TRUE /\ observers' = Append(observers, ret'.arg)
       ELSE ret'.val = FALSE /\ observers' = observers
  /\ (ret' # ret /\ ret'.op = "RemoveSessionObserver") =>
       /\ \A k \in 1..Len(observers') : observers'[k] # ret'.arg
       /\ Len(observers') <= Len(observers)
       /\ (\E k \in 1..Len(observers) : observers[k] = ret'.arg) =>
            Len(observers') < MaxObservers

C15_BoundedObserverList == [][C15_Step]_vars

\* an add succeeded right after an observer was removed from the full list
C15_Witness ==
  /\ ret.op = "AddSessionObserver" /\ ret.val = TRUE /\ ret.refill
  /\ Len(observers) > 0 /\ observers[Len(observers)] = ret.arg

-----------------------------------------------------------------------------
(* The order of the steps of an emission *)

\* the steps of an emission in the order the claim gives them
StepOrder ==
  <<"reset", "desc", "WriteEvent", "add_categories", "set_track_uuid",
    "arg_function", "close">>

StepRank(s) == CHOOSE k \in 1..Len(StepOrder) : StepOrder[k] = s

\* the steps a sequence of packets stands for: a reset packet, a descriptor
\* packet, and the steps of an event record
StepsOf(packets) ==
  LET F[n \in 0..Len(packets)] ==
        IF n = 0 THEN <<>>
        ELSE F[n - 1] \o (IF packets[n].kind = "event" THEN packets[n].steps
                          ELSE <<packets[n].kind>>)
  IN  F[Len(packets)]

StrictlyOrdered(steps) ==
  \A a, b \in 1..Len(steps) : a < b => StepRank(steps[a]) < StepRank(steps[b])

-----------------------------------------------------------------------------
(* C16: the steps of one emission are taken in the order reset check,      *)
(* track descriptor, opening of the event record, category tags, track     *)
(* uuid, argument function, closing of the record: the event record is     *)
(* always opened, the argument function always run and the record closed   *)
(* last, and no step comes before one that is earlier in this order.       *)

C16_Step(t) ==
  LET steps == StepsOf(NewPackets(t, inst[t]))
  IN  /\ StrictlyOrdered(steps)
      /\ \E a, b \in 1..Len(steps) :
           /\ steps[a] = "WriteEvent" /\ steps[b] = "arg_function" /\ a < b
           /\ b + 1 = Len(steps) /\ steps[b + 1] = "close"
      /\ ClearedFlagSet(t, inst[t]) => steps[1] = "reset"

C16_StepsInOrder == [][\A t \in Threads : Emits(t) => C16_Step(t)]_vars

\* one emission took every step: a reset, a track descriptor and an event
\* with category tags and a track uuid
C16_Witness ==
  \E i \in Instances :
    /\ Len(out[1][i]) = 3
    /\ StepsOf(out[1][i]) = StepOrder

-----------------------------------------------------------------------------
(* C17 as stated: an emission that finds the cleared flag set leaves no    *)
(* entry in the dynamic-category cache that was cached before it (stated   *)
(* leniently: none but the entry of the emission's own category), makes    *)
(* one ResetIncrementalState call and leaves the flag false; an emission   *)
(* that finds the flag unset does none of these.                           *)

\* the names an emission's own dynamic category check may have cached
OwnNames(t) == IF kIsDynamic(cur[t].category) THEN {DynName(t)} ELSE {}

C17_ResetClearsCache ==
  [][\A t \in Threads :
       Emits(t) =>
         IF ClearedFlagSet(t, inst[t])
         THEN /\ DOMAIN tls'[t][inst[t]].dynamic_categories \subseteq OwnNames(t)
              /\ resetCalls'[t][inst[t]] = resetCalls[t][inst[t]] + 1
              /\ ~tls'[t][inst[t]].was_cleared
         ELSE /\ tls'[t][inst[t]].dynamic_categories = tls[t][inst[t]].dynamic_categories
              /\ resetCalls'[t][inst[t]] = resetCalls[t][inst[t]]]_vars

(* C17 as the code has it: an emission that finds the cleared flag set     *)
(* makes one ResetIncrementalState call, writes the reset packet first and *)
(* leaves the flag false; one that finds it unset makes no such call and   *)
(* leaves the flag false. Neither touches the dynamic-category cache: the  *)
(* cache is empty when the incremental state is constructed, which is the  *)
(* only time an entry is lost, and what was cached in the state since then *)
(* is kept.                                                                *)

C17_Emission(t) ==
  LET i == inst[t]
      st == GetIncrementalState(tls[t][i], incrGen[i])
  IN  /\ tls'[t][i].dynamic_categories = st.dynamic_categories
      /\ ~tls'[t][i].was_cleared
      /\ IF ClearedFlagSet(t, i)
         THEN /\ resetCalls'[t][i] = resetCalls[t][i] + 1
              /\ NewOf(t, i, "reset") = {1}
         ELSE /\ resetCalls'[t][i] = resetCalls[t][i]
              /\ NewOf(t, i, "reset") = {}

\* the steps that call GetIncrementalState: a state of an earlier generation
\* is replaced by a new one, whose cache is empty
C17_Construction(t) ==
  (StepOf(t) /\ pc[t] \in {"check", "emit"} /\ IsStale(tls[t][inst[t]], incrGen[inst[t]])) =>
    /\ tls'[t][inst[t]].dynamic_categories = EmptyCache
    /\ tls'[t][inst[t]].gen = incrGen[inst[t]]
    /\ tls'[t][inst[t]].has

C17_ResetKeepsCache ==
  [][\A t \in Threads : C17_Construction(t) /\ (Emits(t) => C17_Emission(t))]_vars

\* a sequence cached a dynamic name as disabled, then wrote its first event
\* (of a static category) with a reset: the entry is still in the cache
C17_Witness ==
  \E i \in Instances :
    /\ created[1][i] = 1 /\ resetCalls[1][i] = 1 /\ ~tls[1][i].was_cleared
    /\ \E n \in DOMAIN tls[1][i].dynamic_categories : ~tls[1][i].dynamic_categories[n]
    /\ Len(out[1][i]) >= 2 /\ out[1][i][1].kind = "reset"
    /\ \A p \in EventPositions(out[1][i]) : out[1][i][p].call = 2

-----------------------------------------------------------------------------
(* C18: between two resets of a sequence (the replacement of its           *)
(* incremental state by a newly constructed one after a clear request) the *)
(* state only grows: no cached dynamic-category name and no written track  *)
(* is lost and no cached value changes; only the step that constructs the  *)
(* new state shrinks them. The sequence lives as long as its session: the  *)
(* sequences of a session that starts in the slot are new ones.            *)

\* the incremental state of thread t for instance i loses nothing in the step
C18_Grows(t, i) ==
  /\ DOMAIN tls[t][i].dynamic_categories \subseteq DOMAIN tls'[t][i].dynamic_categories
  /\ \A n \in DOMAIN tls[t][i].dynamic_categories :
       tls'[t][i].dynamic_categories[n] = tls[t][i].dynamic_categories[n]
  /\ tls[t][i].seen_tracks \subseteq tls'[t][i].seen_tracks

\* the step is one in which thread t gets a newly constructed state for i
C18_Reset(t, i) ==
  /\ pc[t] \in {"check", "emit"} /\ inst[t] = i
  /\ IsStale(tls[t][i], incrGen[i])
  /\ created'[t][i] = created[t][i] + 1

C18_StateOnlyGrowsBetweenResets ==
  [][\A t \in Threads : \A i \in Instances :
       C18_Grows(t, i) \/ C18_Reset(t, i) \/ SessionStarts(i)]_vars

\* a sequence whose state was replaced once and has grown again: a cached
\* name and a written track in the second state
C18_Witness ==
  \E i \in Instances :
    /\ created[1][i] = 2
    /\ DOMAIN tls[1][i].dynamic_categories # {}
    /\ tls[1][i].seen_tracks # {}
    /\ tls[1][i].gen = incrGen[i]

-----------------------------------------------------------------------------
(* C19: the event of a dynamic category carries one category tag per       *)
(* member of the comma-joined name, the members and nothing else: no tag   *)
(* holds a comma and the tags joined by commas give the name back. The     *)
(* event of a static category carries no such tag.                        *)

RECURSIVE JoinWithCommas(_)
JoinWithCommas(tags) ==
  IF Len(tags) = 0 THEN <<>>
  ELSE IF Len(tags) = 1 THEN tags[1]
  ELSE tags[1] \o <<",">> \o JoinWithCommas(Tail(tags))

HasComma(word) == \E k \in 1..Len(word) : word[k] = ","

\* the event records the step writes for (t, i)
NewEvents(t, i) == { NewPackets(t, i)[p] : p \in NewOf(t, i, "event") }

C19_Step(t) ==
  \A e \in NewEvents(t, inst[t]) :
    IF kIsDynamic(cur[t].category)
    THEN /\ Len(e.categories) >= 1
         /\ \A k \in 1..Len(e.categories) : ~HasComma(e.categories[k])
         /\ JoinWithCommas(e.categories) = GetDynamicCategory(cur[t].category)
    ELSE e.categories = <<>>

C19_TagsAreTheGroupMembers ==
  [][\A t \in Threads : Emits(t) => (NewEvents(t, inst[t]) # {} /\ C19_Step(t))]_vars

\* an event of the group "a,b" with the tags a and b, and an event of a
\* static category with none, on one sequence
C19_Witness ==
  \E i \in Instances :
    /\ \E p \in EventPositions(out[1][i]) :
         out[1][i][p].categories = << <<"a">>, <<"b">> >>
    /\ \E p \in EventPositions(out[1][i]) :
         /\ out[1][i][p].static # kDynamicCategoryIndex
         /\ out[1][i][p].categories = <<>>

-----------------------------------------------------------------------------
(* C20: every shape of the trace point writes the record of the call with  *)
(* the defaults filled in: without a track, no track id and no track       *)
(* descriptor; with a raw nanosecond timestamp T, the timestamp T in the   *)
(* clock of the trace, and the time of the call otherwise; with one or two *)
(* inline debug pairs, those names in argument order and nothing else;     *)
(* with a lambda what the lambda adds; with none of these, nothing.        *)

TracklessKinds == {"none", "lambda", "lambda_ts", "debug1", "debug2"}
RawTimestampKinds == {"lambda_ts", "track_ts", "track_lambda_ts"}

ExpectedArgs(kind) ==
  CASE kind \in {"debug1", "track_debug1"} -> <<"arg_name">>
    [] kind \in {"debug2", "track_debug2"} -> <<"arg_name", "arg_name2">>
    [] kind \in {"lambda", "lambda_ts", "track_lambda", "track_lambda_ts"} -> <<"lambda">>
    [] OTHER -> <<>>

C20_Record(kind, e) ==
  /\ e.ts.clock_id = GetClockId
  /\ IF kind \in RawTimestampKinds THEN e.ts.value \in SuppliedTimestamps
     ELSE e.ts.value \in ClockReadings
  /\ kind \in TracklessKinds => e.track = NoTrackId
  /\ e.args = ExpectedArgs(kind)

C20_Step(t) ==
  /\ \A e \in NewEvents(t, inst[t]) :
       /\ e.name = cur[t].name /\ e.type = cur[t].type
       /\ C20_Record(cur[t].kind, e)
  /\ cur[t].kind \in TracklessKinds => NewOf(t, inst[t], "desc") = {}

C20_ShapesEqualCanonicalCall ==
  [][\A t \in Threads : Emits(t) => (NewEvents(t, inst[t]) # {} /\ C20_Step(t))]_vars

\* the shape with two debug pairs and no track has written its record: both
\* names in order, the time of the call, no track id and no descriptor
C20_Witness ==
  \E i \in Instances :
    /\ PositionsOf(out[1][i], "desc") = {}
    /\ \E p \in EventPositions(out[1][i]) :
         /\ out[1][i][p].args = <<"arg_name", "arg_name2">>
         /\ out[1][i][p].track = NoTrackId
         /\ out[1][i][p].ts = [clock_id |-> GetClockId, value |-> 5]

-----------------------------------------------------------------------------
(* C22: an event record carries a track id iff the track descriptor check  *)
(* was made for that track in the same emission: a record with a track id  *)
(* (the id 0 of a copy of the default track included) is written by an     *)
(* emission after which the sequence has the track among its written       *)
(* tracks, and an emission that made the check writes a record with the    *)
(* id of the track.                                                        *)

\* WriteTrackDescriptorIfNeeded was called for the track of the emission:
\* the track is among the written tracks of the sequence afterwards
C22_DescriptorChecked(t, uuid) == uuid \in tls'[t][inst[t]].seen_tracks

C22_Step(t) ==
  \A e \in NewEvents(t, inst[t]) :
    /\ e.track # NoTrackId => C22_DescriptorChecked(t, e.track)
    /\ C22_DescriptorChecked(t, cur[t].track.uuid) => e.track = cur[t].track.uuid

C22_TrackIdIffDescriptorChecked ==
  [][\A t \in Threads : Emits(t) => C22_Step(t)]_vars

-----------------------------------------------------------------------------
(* C21: an emission whose supplied timestamp converts to a clock other     *)
(* than the clock of the trace fails the assertion in a debug build: the   *)
(* program ends there, nothing is written and no result is handed back;    *)
(* in a release build the emission goes on and its event record holds the  *)
(* supplied nanoseconds. Nothing happens in the program after a failed     *)
(* assertion.                                                              *)

\* the timestamp of the emission of thread t is in another clock than the
\* trace's
C21_Mismatch(t) ==
  cur[t].timestamp_type # "uint64_t" /\ TraceTimestamp(cur[t]).clock_id # GetClockId

C21_Step(t) ==
  IF build = "debug"
  THEN /\ pc'[t] = "aborted"
       /\ out' = out /\ tls' = tls /\ ret' = ret /\ resetCalls' = resetCalls
  ELSE /\ pc'[t] # "aborted"
       /\ \E e \in NewEvents(t, inst[t]) : e.ts.value = cur[t].timestamp

C21_ClockMismatch ==
  [][/\ \A t \in Threads : (Emits(t) /\ C21_Mismatch(t)) => C21_Step(t)
     /\ Running]_vars

\* a release build has written an event whose timestamp is in the clock the
\* user's conversion named
C21_Witness ==
  /\ build = "release"
  /\ \E i \in Instances : \E p \in EventPositions(out[1][i]) :
       /\ out[1][i][p].ts.clock_id # GetClockId
       /\ out[1][i][p].ts.value \in SuppliedTimestamps

-----------------------------------------------------------------------------
(* C24: the public IsDynamicCategoryEnabled(name) returns false when no    *)
(* session is active, and with active sessions it returns true iff the     *)
(* configuration of at least one active session enables the name.          *)

\* a step in which the public IsDynamicCategoryEnabled returns
C24_Returns == ret' # ret /\ ret'.op = "IsDynamicCategoryEnabled"

C24_EnabledInSomeSession(name) ==
  \E i \in Instances : Bit(validInstances, i) /\ ConfigEnables(config[i], name)

C24_TrueIffSomeSessionEnables ==
  [][C24_Returns => (ret'.val <=> C24_EnabledInSomeSession(ret'.arg))]_vars

-----------------------------------------------------------------------------
(* C23: after a reset of a sequence (a clear request for its incremental   *)
(* state) the decision for the next emission with a dynamic category is    *)
(* not served from a cache entry stored before the reset: an answer served *)
(* from the cache comes from a state constructed after the latest reset,   *)
(* and the first check after a reset finds no entry and reads the          *)
(* session's config under its lock before the event is written or dropped. *)

\* the dynamic category check of thread t looks the name up
C23_Lookup(t) == StepOf(t) /\ pc[t] = "check"

\* the lookup is answered from the cache
C23_Served(t) == C23_Lookup(t) /\ pc'[t] # "locked"

C23_Step(t) ==
  /\ C23_Served(t) =>
       /\ ~IsStale(tls[t][inst[t]], incrGen[inst[t]])
       /\ DynName(t) \in DOMAIN tls[t][inst[t]].dynamic_categories
       /\ enabledRet'[t] = tls[t][inst[t]].dynamic_categories[DynName(t)]
  /\ (C23_Lookup(t) /\ IsStale(tls[t][inst[t]], incrGen[inst[t]])) =>
       /\ pc'[t] = "locked"
       /\ lock'[inst[t]] = t
       /\ tls'[t][inst[t]].dynamic_categories = EmptyCache
  /\ (StepOf(t) /\ pc[t] = "locked") =>
       enabledRet'[t] = ConfigEnables(config[inst[t]], DynName(t))

C23_NotServedFromBeforeReset ==
  [][\A t \in Threads : C23_Step(t)]_vars

\* a sequence wrote an event of a dynamic category, was reset, and wrote the
\* next one after looking the name up again in its second state
C23_Witness ==
  \E i \in Instances :
    /\ incrGen[i] = 1 /\ created[1][i] = 2 /\ tls[1][i].gen = 1
    /\ DOMAIN tls[1][i].dynamic_categories # {}
    /\ PositionsOf(out[1][i], "reset") # {}
    /\ \E p, q \in EventPositions(out[1][i]) :
         /\ out[1][i][p].call = 1 /\ out[1][i][q].call = 2
         /\ out[1][i][p].static = kDynamicCategoryIndex
         /\ out[1][i][q].static = kDynamicCategoryIndex

-----------------------------------------------------------------------------
(* C25: a trace call whose dynamic category is disabled for a session      *)
(* changes nothing for the session but, possibly, one entry added to the   *)
(* cache of dynamic categories: the steps of the dynamic category check    *)
(* keep the cleared flag (a pending reset stays pending), call no          *)
(* ResetIncrementalState, keep the written tracks and append nothing to    *)
(* the output, and a check that answers false is followed by no emission   *)
(* for the session. The state compared with is the one the check works on: *)
(* the one ctx.GetIncrementalState() returns at the lookup.                *)

\* the incremental state the step of the dynamic category check works on
C25_StateBefore(t) ==
  IF pc[t] = "check" THEN GetIncrementalState(tls[t][inst[t]], incrGen[inst[t]])
  ELSE tls[t][inst[t]]

C25_Step(t) ==
  LET i == inst[t]
      before == C25_StateBefore(t)
      after == tls'[t][i]
  IN  /\ after.was_cleared = before.was_cleared
      /\ after.seen_tracks = before.seen_tracks
      /\ DOMAIN after.dynamic_categories \subseteq
           DOMAIN before.dynamic_categories \cup {DynName(t)}
      /\ \A n \in DOMAIN before.dynamic_categories :
           /\ n \in DOMAIN after.dynamic_categories
           /\ after.dynamic_categories[n] = before.dynamic_categories[n]
      /\ out' = out
      /\ resetCalls' = resetCalls
      /\ argCalls' = argCalls
      /\ tracks' = tracks
      /\ \A i2 \in Instances \ {i} : tls'[t][i2] = tls[t][i2]
      /\ (DynReturns(t) /\ ~DynReturned(t)) => pc'[t] # "emit"

C25_DisabledCallOnlyCaches ==
  [][\A t \in Threads :
       (StepOf(t) /\ pc[t] \in {"check", "locked"}) => C25_Step(t)]_vars

\* after an event and a clear request, a call of a disabled dynamic category
\* has returned: its name is cached as disabled in the new state, the reset
\* is still pending, and the output holds what it held
C25_Witness ==
  \E i \in Instances :
    /\ pc[1] = "idle" /\ calls = 2
    /\ created[1][i] = 2 /\ tls[1][i].gen = incrGen[i]
    /\ tls[1][i].was_cleared
    /\ tls[1][i].seen_tracks = {}
    /\ \E n \in DOMAIN tls[1][i].dynamic_categories : ~tls[1][i].dynamic_categories[n]
    /\ resetCalls[1][i] = 1
    /\ NumEvents(out[1][i]) = 1

-----------------------------------------------------------------------------
(* C26: a dynamic-category emission delivered with an instance mask writes *)
(* an event record to exactly those sessions of the mask whose own         *)
(* configuration enables the category. Step by step: the answer            *)
(* IsDynamicCategoryEnabled returns for a session is what that session's   *)
(* own configuration says; on true the record of the call is written next  *)
(* for that session, on false the loop leaves the session without writing; *)
(* the emission writes one event record, to the output of the session the  *)
(* lambda runs for, a session of the mask, and to no other output.         *)

\* the answer returned for the session is the one of its own configuration
C26_OwnAnswer(t) ==
  DynReturned(t) = ConfigEnables(config[inst[t]], DynName(t))

\* enabled: emitted for this session; disabled: the session is left
C26_Follows(t) ==
  IF DynReturned(t)
  THEN pc'[t] = "emit" /\ inst'[t] = inst[t]
  ELSE pc'[t] # "emit" \/ inst'[t] > inst[t]

\* the emission writes the record of the call for this session only
C26_Written(t) ==
  /\ Bit(instances[t], inst[t])
  /\ enabledRet[t]
  /\ Len(NewPackets(t, inst[t])) >= 1
  /\ Cardinality(NewOf(t, inst[t], "event")) = 1
  /\ \A e \in NewEvents(t, inst[t]) :
       e.call = callNo[t] /\ e.static = kDynamicCategoryIndex
  /\ \A i \in Instances \ {inst[t]} : out'[t][i] = out[t][i]
  /\ \A t2 \in Threads \ {t} : out'[t2] = out[t2]

C26_Step(t) ==
  /\ DynReturns(t) => (C26_OwnAnswer(t) /\ C26_Follows(t))
  /\ (Emits(t) /\ kIsDynamic(cur[t].category)) => C26_Written(t)
  /\ (StepOf(t) /\ pc[t] \in {"check", "locked"}) => out' = out

C26_WrittenWhereOwnConfigEnables ==
  [][\A t \in Threads : C26_Step(t)]_vars

\* one call of the dynamic category "b" went to two sessions: the one whose
\* configuration has only "a" cached it as disabled and holds no record, the
\* one whose configuration has "b" holds the record of the call
C26_Witness ==
  /\ pc[1] = "idle" /\ calls = 1
  /\ \A i \in Instances : Bit(validInstances, i)
  /\ config[0] = {<<"a">>} /\ config[1] = {<<"b">>}
  /\ <<"b">> \in DOMAIN tls[1][0].dynamic_categories
  /\ ~tls[1][0].dynamic_categories[<<"b">>]
  /\ out[1][0] = <<>>
  /\ NumEvents(out[1][1]) = 1
  /\ \A p \in PositionsOf(out[1][1], "event") :
       out[1][1][p].static = kDynamicCategoryIndex /\ out[1][1][p].call = 1

====
